---- MODULE Spec2Model ----
(***************************************************************************)
(* Plasma Cleaner: a full-screen moving bar driven by a GLib repaint       *)
(* timer and a GTK "draw" handler, plus a screensaver-suppression timer.   *)
(* The repository holds two builds of plasmacleaner.c: the file            *)
(* src/plasmacleaner.c (pattern cached per width, offset wrapped at paint  *)
(* time) and the one in src/unnamed/part_000 (unit-width pattern, offset   *)
(* wrapped in the timer, offset rescaled on a width change).  The variable *)
(* build says which of the two is running; it never changes.               *)
(***************************************************************************)
EXTENDS Integers, Naturals, Sequences, FiniteSets, TLC

\* ---------------------------------------------------------------- constants

PERIOD_MS == 4000
SCREENSAVER_SUPPRESSION_PERIOD_MS == 1000

\* data.x is a guint.  An X11 window is at most 65535 pixels wide, so neither
\* x + 1 nor x * width (both below 65535 * 65535 < 2^32) wraps around; the
\* guint operations are modelled by the integer ones.

\* A null pattern pointer / an unset timer handle.
NULL == 0

BuildA == "plasmacleaner.c"
BuildB == "part_000"
Builds == {BuildA, BuildB}

\* ------------------------------------------------------------------- bounds

\* Widths gtk_widget_get_allocated_width reports (GTK allocates at least 1):
\* a narrow one, two that share PERIOD_MS / width, and one above PERIOD_MS.
Widths == {3, 89, 90, 4001}
\* GLib hands out source ids 1, 2, 3, ...; registrations stop at this id.
MaxSourceId == 4
\* In plasmacleaner.c the offset grows until the next paint; timer firings
\* stop once it is this far past the width.
MaxOverrun == 2
\* Widths of the runs that count consecutive timer firings.
MaxCycleWidth == 4

\* -------------------------------------------------------------------- state

VARIABLES
  build,                  \* which plasmacleaner.c is running
  phase,                  \* "running" (in gtk_main), "quit", "exited",
                          \* "aborted" (failed assert), "crashed" (SIGFPE)
  pattern,                \* data.pattern: NULL, or the x1 extent of the gradient
  live,                   \* cairo patterns created and not yet destroyed
  draw_timeout_id,        \* data.draw_timeout_id
  draw_timeout_interval,  \* data.draw_timeout_interval (part_000 only)
  x,                      \* data.x
  width,                  \* data.last_width / data.width
  screensaver_suppression_timeout_id,  \* main's local
  sources,                \* the timeout sources attached to the main context
  next_id,                \* the id GLib gives the next source
  redraw,                 \* a redraw of the window is queued
  cr,                     \* the cairo commands the last dispatched handler issued
  exit_status,            \* main's return value, -1 while the process runs
  log,                    \* history: the library calls made so far, in order
  trail                   \* history: the offsets of a counted run of firings

vars == <<build, phase, pattern, live, draw_timeout_id, draw_timeout_interval,
          x, width, screensaver_suppression_timeout_id, sources, next_id,
          redraw, cr, exit_status, log, trail>>

NoDraw == [translate |-> 0, scale |-> 0, source |-> NULL]

DrawTimer == "on_draw_timer"
IdleTimer == "on_screensaver_suppression_timer"

Ev(op, arg) == [op |-> op, arg |-> arg]

\* -------------------------------------------------------------- GLib, cairo

\* g_timeout_add(interval, fn, data): attaches a source with a fresh id.
g_timeout_add(srcs, id, fn, interval) ==
  srcs \cup {[id |-> id, fn |-> fn, interval |-> interval]}

\* g_source_remove(id): detaches the source with that id.
g_source_remove(srcs, id) == {s \in srcs : s.id # id}

\* -------------------------------------------------- the part of data freed

Data == [pattern |-> pattern, live |-> live, draw_timeout_id |-> draw_timeout_id,
         sources |-> sources, log |-> log]

\* part_000: free_draw_timeout
free_draw_timeout_KeepsSource(d) ==
  IF d.draw_timeout_id # 0
    THEN [d EXCEPT !.log = Append(@, Ev("g_source_remove", d.draw_timeout_id)),
                   !.draw_timeout_id = 0]
    ELSE d

\* free_draw_timeout without the reset of the handle (part_000 line 59).
free_draw_timeout_StaleHandle(d) ==
  IF d.draw_timeout_id # 0
    THEN [d EXCEPT !.sources = g_source_remove(@, d.draw_timeout_id),
                   !.log = Append(@, Ev("g_source_remove", d.draw_timeout_id))]
    ELSE d

free_draw_timeout(d) ==
  IF d.draw_timeout_id # 0
    THEN [d EXCEPT !.sources = g_source_remove(@, d.draw_timeout_id),
                   !.log = Append(@, Ev("g_source_remove", d.draw_timeout_id)),
                   !.draw_timeout_id = 0]
    ELSE d

\* plasmacleaner.c: free_draw_timeout_and_pattern
free_draw_timeout_and_pattern_LeaksPattern(d) ==
  IF d.draw_timeout_id # 0
    THEN [d EXCEPT !.sources = g_source_remove(@, d.draw_timeout_id),
                   !.log = Append(@, Ev("g_source_remove", d.draw_timeout_id)),
                   !.draw_timeout_id = 0]
    ELSE d

\* free_draw_timeout_and_pattern forgetting the handle without detaching the
\* source (no g_source_remove at plasmacleaner.c line 44).
free_draw_timeout_and_pattern_SourceLeft(d) ==
  LET t == [d EXCEPT !.draw_timeout_id = 0]
  IN  IF t.pattern # NULL
        THEN [t EXCEPT !.live = @ - 1,
                       !.log = Append(@, Ev("cairo_pattern_destroy", t.pattern)),
                       !.pattern = NULL]
        ELSE t

free_draw_timeout_and_pattern_PatternFirst(d) ==
  LET t == IF d.pattern # NULL
             THEN [d EXCEPT !.live = @ - 1,
                            !.log = Append(@, Ev("cairo_pattern_destroy", d.pattern)),
                            !.pattern = NULL]
             ELSE d
  IN  IF t.draw_timeout_id # 0
        THEN [t EXCEPT !.sources = g_source_remove(@, t.draw_timeout_id),
                       !.log = Append(@, Ev("g_source_remove", t.draw_timeout_id)),
                       !.draw_timeout_id = 0]
        ELSE t

free_draw_timeout_and_pattern(d) ==
  LET t == IF d.draw_timeout_id # 0
             THEN [d EXCEPT !.sources = g_source_remove(@, d.draw_timeout_id),
                            !.log = Append(@, Ev("g_source_remove", d.draw_timeout_id)),
                            !.draw_timeout_id = 0]
             ELSE d
  IN  IF t.pattern # NULL
        THEN [t EXCEPT !.live = @ - 1,
                       !.log = Append(@, Ev("cairo_pattern_destroy", t.pattern)),
                       !.pattern = NULL]
        ELSE t

\* ------------------------------------------------------------ on_draw_timer

\* plasmacleaner.c: data->x++.  Like every attached source, the timer is
\* dispatched while the main loop dispatches, also in the iteration in which
\* gtk_main_quit was called; only its removal stops it.
on_draw_timer_A ==
  /\ build = BuildA
  /\ phase \in {"running", "quit"}
  /\ \E s \in sources : s.fn = DrawTimer
  /\ x < width + MaxOverrun
  /\ x' = x + 1
  /\ redraw' = TRUE
  /\ cr' = NoDraw
  /\ UNCHANGED <<build, phase, pattern, live, draw_timeout_id,
                 draw_timeout_interval, width,
                 screensaver_suppression_timeout_id, sources, next_id,
                 exit_status, log>>

\* part_000: the increment-and-wrap step
wrap_increment(v, w) == (v + 1) % w

\* part_000: assert(data->width); data->x = (data->x + 1) % data->width
on_draw_timer_B ==
  /\ build = BuildB
  /\ phase \in {"running", "quit"}
  /\ \E s \in sources : s.fn = DrawTimer
  /\ IF width = 0
       THEN /\ phase' = "aborted"
            /\ UNCHANGED <<x, redraw>>
       ELSE /\ x' = wrap_increment(x, width)
            /\ redraw' = TRUE
            /\ UNCHANGED phase
  /\ cr' = NoDraw
  /\ UNCHANGED <<build, pattern, live, draw_timeout_id, draw_timeout_interval,
                 width, screensaver_suppression_timeout_id, sources, next_id,
                 exit_status, log>>

\* ------------------------------------------------------------------ on_draw

\* plasmacleaner.c: if (data->last_width != width)
width_changed_FirstOnly(last, w) == last = 0

width_changed(last, w) == last # w

\* plasmacleaner.c: PERIOD_MS / (double)width, converted to g_timeout_add's
\* guint parameter: the quotient truncated toward zero.
draw_interval_A(w) == PERIOD_MS \div w

\* plasmacleaner.c: cairo_pattern_create_linear(0, 0, width, 0)
pattern_extent(w) == w

\* plasmacleaner.c: on_draw, for the allocated width w
on_draw_A(w) ==
  /\ build = BuildA
  /\ phase = "running"
  /\ w # 0
  /\ IF width_changed(width, w)
       THEN LET f == free_draw_timeout_and_pattern(Data)
            IN  /\ next_id <= MaxSourceId
                /\ sources' = g_timeout_add(f.sources, next_id, DrawTimer,
                                            draw_interval_A(w))
                /\ draw_timeout_id' = next_id
                /\ next_id' = next_id + 1
                /\ pattern' = pattern_extent(w)
                /\ live' = f.live + 1
                /\ log' = f.log \o <<Ev("g_timeout_add", next_id),
                                    Ev("cairo_pattern_create_linear",
                                       pattern_extent(w))>>
       ELSE UNCHANGED <<sources, draw_timeout_id, next_id, pattern, live, log>>
  /\ width' = w
  /\ x' = x % w
  /\ cr' = [translate |-> x', scale |-> 1, source |-> pattern']
  /\ redraw' = FALSE
  /\ UNCHANGED <<build, phase, draw_timeout_interval,
                 screensaver_suppression_timeout_id, exit_status>>

\* plasmacleaner.c: cairo_pattern_create_linear(0, 0, 0, 0) returns a pattern
\* (a non-null pointer) whose extent is 0.
ZeroExtentPattern == -1

\* plasmacleaner.c: PERIOD_MS / (double)0 is +infinity, and its conversion to
\* guint is undefined: the interval passed may be any guint (0 on x86-64).
UndefinedIntervals == {0, 1, 2147483647}

\* plasmacleaner.c: on_draw for an allocated width of 0.  There is no assert:
\* the timer and the pattern are rebuilt when the stored width was not 0, then
\* data->x %= 0 is undefined: the process is killed by SIGFPE, or the
\* division yields some value (0, or x unchanged) and the paint goes on.
on_draw_A_zero ==
  /\ build = BuildA
  /\ phase = "running"
  /\ IF width_changed(width, 0)
       THEN LET f == free_draw_timeout_and_pattern(Data)
            IN  /\ next_id <= MaxSourceId
                /\ \E i \in UndefinedIntervals :
                     sources' = g_timeout_add(f.sources, next_id, DrawTimer, i)
                /\ draw_timeout_id' = next_id
                /\ next_id' = next_id + 1
                /\ pattern' = ZeroExtentPattern
                /\ live' = f.live + 1
                /\ log' = f.log \o <<Ev("g_timeout_add", next_id),
                                    Ev("cairo_pattern_create_linear", 0)>>
       ELSE UNCHANGED <<sources, draw_timeout_id, next_id, pattern, live, log>>
  /\ width' = 0
  /\ \/ /\ phase' = "crashed"
        /\ cr' = NoDraw
        /\ UNCHANGED <<x, redraw>>
     \/ /\ x' \in {0, x}
        /\ cr' = [translate |-> x', scale |-> 1, source |-> pattern']
        /\ redraw' = FALSE
        /\ UNCHANGED phase
  /\ UNCHANGED <<build, draw_timeout_interval,
                 screensaver_suppression_timeout_id, exit_status>>

\* part_000: guint draw_timeout_interval = PERIOD_MS / width
draw_interval_B(w) == PERIOD_MS \div w

\* The comparison of part_000 line 79 answering yes for every paint.
interval_changed_Always(stored, interval) == TRUE

\* part_000: if (data->draw_timeout_interval != draw_timeout_interval)
interval_changed(stored, interval) == stored # interval

\* part_000: data->x = data->x * width / data->width, 
scale_x(v, w, old) == (v * w) \div old

\* part_000: cairo_scale(cr, width, 1.0)
draw_scale_Unscaled(w) == 1

draw_scale(w) == w

\* on_draw of part_000 without the assignment of line 91: the painted width is
\* never stored.
on_draw_B_WidthNotStored(w) ==
  /\ build = BuildB
  /\ phase = "running"
  /\ IF w = 0
       THEN /\ phase' = "aborted"
            /\ UNCHANGED <<sources, draw_timeout_id, next_id, log,
                           draw_timeout_interval, x, width, cr, redraw>>
       ELSE /\ IF interval_changed(draw_timeout_interval, draw_interval_B(w))
                 THEN LET f == free_draw_timeout(Data)
                      IN  /\ next_id <= MaxSourceId
                          /\ sources' = g_timeout_add(f.sources, next_id,
                                            DrawTimer, draw_interval_B(w))
                          /\ draw_timeout_id' = next_id
                          /\ next_id' = next_id + 1
                          /\ log' = Append(f.log, Ev("g_timeout_add", next_id))
                          /\ draw_timeout_interval' = draw_interval_B(w)
                 ELSE UNCHANGED <<sources, draw_timeout_id, next_id, log,
                                  draw_timeout_interval>>
            /\ x' = IF width # 0 THEN scale_x(x, w, width) ELSE x
            /\ UNCHANGED width
            /\ cr' = [translate |-> x', scale |-> draw_scale(w),
                      source |-> pattern]
            /\ redraw' = FALSE
            /\ UNCHANGED phase
  /\ UNCHANGED <<build, pattern, live, screensaver_suppression_timeout_id,
                 exit_status>>

\* part_000: on_draw, for the allocated width w
on_draw_B(w) ==
  /\ build = BuildB
  /\ phase = "running"
  /\ IF w = 0
       THEN /\ phase' = "aborted"
            /\ UNCHANGED <<sources, draw_timeout_id, next_id, log,
                           draw_timeout_interval, x, width, cr, redraw>>
       ELSE /\ IF interval_changed(draw_timeout_interval, draw_interval_B(w))
                 THEN LET f == free_draw_timeout(Data)
                      IN  /\ next_id <= MaxSourceId
                          /\ sources' = g_timeout_add(f.sources, next_id,
                                            DrawTimer, draw_interval_B(w))
                          /\ draw_timeout_id' = next_id
                          /\ next_id' = next_id + 1
                          /\ log' = Append(f.log, Ev("g_timeout_add", next_id))
                          /\ draw_timeout_interval' = draw_interval_B(w)
                 ELSE UNCHANGED <<sources, draw_timeout_id, next_id, log,
                                  draw_timeout_interval>>
            /\ IF width # w
                 THEN /\ x' = IF width # 0 THEN scale_x(x, w, width) ELSE x
                      /\ width' = w
                 ELSE UNCHANGED <<x, width>>
            /\ cr' = [translate |-> x', scale |-> draw_scale(w),
                      source |-> pattern]
            /\ redraw' = FALSE
            /\ UNCHANGED phase
  /\ UNCHANGED <<build, pattern, live, screensaver_suppression_timeout_id,
                 exit_status>>

\* on_draw of the build that is running
on_draw(w) == on_draw_A(w) \/ on_draw_B(w) \/ (w = 0 /\ on_draw_A_zero)

\* ------------------------------------------- input, destruction, the timers

\* plasmacleaner.c: on_button_or_key_press -> gtk_widget_destroy -> on_destroy
on_button_or_key_press_A ==
  /\ build = BuildA
  /\ phase = "running"
  /\ LET d == [Data EXCEPT !.log = Append(@, Ev("gtk_widget_destroy", 0))]
         f == free_draw_timeout_and_pattern(d)
     IN  /\ sources' = f.sources
         /\ draw_timeout_id' = f.draw_timeout_id
         /\ pattern' = f.pattern
         /\ live' = f.live
         /\ log' = Append(f.log, Ev("gtk_main_quit", 0))
  /\ phase' = "quit"
  /\ redraw' = FALSE
  /\ cr' = NoDraw
  /\ UNCHANGED <<build, draw_timeout_interval, x, width,
                 screensaver_suppression_timeout_id, next_id, exit_status>>

\* part_000: on_button_or_key_press -> gtk_widget_destroy -> on_destroy
on_button_or_key_press_B ==
  /\ build = BuildB
  /\ phase = "running"
  /\ LET d == [Data EXCEPT !.log = Append(@, Ev("gtk_widget_destroy", 0))]
         f == free_draw_timeout(d)
     IN  /\ sources' = f.sources
         /\ draw_timeout_id' = f.draw_timeout_id
         /\ log' = Append(f.log, Ev("gtk_main_quit", 0))
  /\ phase' = "quit"
  /\ redraw' = FALSE
  /\ cr' = NoDraw
  /\ UNCHANGED <<build, pattern, live, draw_timeout_interval, x, width,
                 screensaver_suppression_timeout_id, next_id, exit_status>>

\* on_screensaver_suppression_timer: XWarpPointer by 0x0, return TRUE.  The
\* source stays attached; the main loop may still dispatch it in the
\* iteration in which gtk_main_quit was called.
on_screensaver_suppression_timer ==
  /\ phase \in {"running", "quit"}
  /\ \E s \in sources : s.fn = IdleTimer
  /\ cr' = NoDraw
  /\ UNCHANGED <<build, phase, pattern, live, draw_timeout_id,
                 draw_timeout_interval, x, width,
                 screensaver_suppression_timeout_id, sources, next_id, redraw,
                 exit_status, log>>

\* plasmacleaner.c: main after gtk_main() returns
main_exit_A ==
  /\ build = BuildA
  /\ phase = "quit"
  /\ sources' = g_source_remove(sources, screensaver_suppression_timeout_id)
  /\ log' = log \o <<Ev("gtk_main", 0),
                     Ev("g_source_remove", screensaver_suppression_timeout_id),
                     Ev("return", 0)>>
  /\ exit_status' = 0
  /\ phase' = "exited"
  /\ cr' = NoDraw
  /\ UNCHANGED <<build, pattern, live, draw_timeout_id, draw_timeout_interval,
                 x, width, screensaver_suppression_timeout_id, next_id, redraw>>

\* part_000: g_source_remove(screensaver_suppression_timeout_id) in main
main_remove_idle_Forgotten(srcs, id) == srcs

main_remove_idle(srcs, id) == g_source_remove(srcs, id)

\* part_000: main after gtk_main() returns
main_exit_B ==
  /\ build = BuildB
  /\ phase = "quit"
  /\ sources' = main_remove_idle(sources, screensaver_suppression_timeout_id)
  /\ live' = live - 1
  /\ log' = log \o <<Ev("gtk_main", 0),
                     Ev("g_source_remove", screensaver_suppression_timeout_id),
                     Ev("cairo_pattern_destroy", pattern),
                     Ev("return", 0)>>
  /\ exit_status' = 0
  /\ phase' = "exited"
  /\ cr' = NoDraw
  /\ UNCHANGED <<build, pattern, draw_timeout_id, draw_timeout_interval,
                 x, width, screensaver_suppression_timeout_id, next_id, redraw>>

\* ------------------------------------------------------------ specification

\* plasmacleaner.c: main up to gtk_main()
main_setup_A ==
  /\ build = BuildA
  /\ pattern = NULL
  /\ live = 0
  /\ log = <<Ev("g_timeout_add", 1)>>

\* part_000: main up to gtk_main(); the unit-width gradient is created here
main_setup_B ==
  /\ build = BuildB
  /\ pattern = 1
  /\ live = 1
  /\ log = <<Ev("cairo_pattern_create_linear", 1), Ev("g_timeout_add", 1)>>

\* struct data_t data = {0}, the idle-suppression source attached, the window
\* presented (its first draw is pending)
Init ==
  /\ main_setup_A \/ main_setup_B
  /\ phase = "running"
  /\ draw_timeout_id = 0
  /\ draw_timeout_interval = 0
  /\ x = 0
  /\ width = 0
  /\ screensaver_suppression_timeout_id = 1
  /\ sources = g_timeout_add({}, 1, IdleTimer, SCREENSAVER_SUPPRESSION_PERIOD_MS)
  /\ next_id = 2
  /\ redraw = TRUE
  /\ cr = NoDraw
  /\ exit_status = -1
  /\ trail = <<>>

Next ==
  \/ (\E w \in Widths : on_draw_A(w)) /\ UNCHANGED trail
  \/ (\E w \in Widths : on_draw_B(w)) /\ UNCHANGED trail
  \/ on_draw_timer_A /\ UNCHANGED trail
  \/ on_draw_timer_B /\ UNCHANGED trail
  \/ on_button_or_key_press_A /\ UNCHANGED trail
  \/ on_button_or_key_press_B /\ UNCHANGED trail
  \/ on_screensaver_suppression_timer /\ UNCHANGED trail
  \/ main_exit_A /\ UNCHANGED trail
  \/ main_exit_B /\ UNCHANGED trail

Spec == Init /\ [][Next]_vars

\* ------------------------------------------- runs of counted timer firings

\* The states right after a paint at width w that left the offset at x0 (a
\* first paint at w, x0 timer firings, a second paint), the trail started at
\* x0.
CycleInit ==
  \E w \in 1..MaxCycleWidth : \E x0 \in 0..(w - 1) :
    /\ \/ /\ build = BuildA
          /\ pattern = pattern_extent(w)
          /\ draw_timeout_interval = 0
          /\ log = <<Ev("g_timeout_add", 1), Ev("g_timeout_add", 2),
                     Ev("cairo_pattern_create_linear", w)>>
          /\ cr = [translate |-> x0, scale |-> 1, source |-> pattern]
          /\ sources = g_timeout_add(
               g_timeout_add({}, 1, IdleTimer, SCREENSAVER_SUPPRESSION_PERIOD_MS),
               2, DrawTimer, draw_interval_A(w))
       \/ /\ build = BuildB
          /\ pattern = 1
          /\ draw_timeout_interval = draw_interval_B(w)
          /\ log = <<Ev("cairo_pattern_create_linear", 1),
                     Ev("g_timeout_add", 1), Ev("g_timeout_add", 2)>>
          /\ cr = [translate |-> x0, scale |-> draw_scale(w), source |-> pattern]
          /\ sources = g_timeout_add(
               g_timeout_add({}, 1, IdleTimer, SCREENSAVER_SUPPRESSION_PERIOD_MS),
               2, DrawTimer, draw_interval_B(w))
    /\ phase = "running"
    /\ live = 1
    /\ draw_timeout_id = 2
    /\ x = x0
    /\ width = w
    /\ screensaver_suppression_timeout_id = 1
    /\ next_id = 3
    /\ redraw = FALSE
    /\ exit_status = -1
    /\ trail = <<x0>>

\* Timer firings, each recorded in the trail, up to width of them, and paints
\* that observe the unchanged width.
CycleNext ==
  \/ on_draw_timer_A /\ Len(trail) <= width /\ trail' = Append(trail, x')
  \/ on_draw_timer_B /\ Len(trail) <= width /\ trail' = Append(trail, x')
  \/ on_draw_A(width) /\ UNCHANGED trail
  \/ on_draw_B(width) /\ UNCHANGED trail

SpecCycle == CycleInit /\ [][CycleNext]_vars

\* The program when a paint may also observe a width of 0 (which GTK, whose
\* allocations are at least 1 pixel wide, does not deliver).
ZeroWidths == {0, 3, 90}

ZeroNext ==
  \/ (\E w \in ZeroWidths : on_draw_A(w)) /\ UNCHANGED trail
  \/ (\E w \in ZeroWidths : on_draw_B(w)) /\ UNCHANGED trail
  \/ on_draw_A_zero /\ UNCHANGED trail
  \/ on_draw_timer_A /\ UNCHANGED trail
  \/ on_draw_timer_B /\ UNCHANGED trail
  \/ on_button_or_key_press_A /\ UNCHANGED trail
  \/ on_button_or_key_press_B /\ UNCHANGED trail
  \/ on_screensaver_suppression_timer /\ UNCHANGED trail
  \/ main_exit_A /\ UNCHANGED trail
  \/ main_exit_B /\ UNCHANGED trail

SpecZero == Init /\ [][ZeroNext]_vars

\* The main loop leaves gtk_main once gtk_main_quit was called, and main runs
\* on to its return.
MainExit == (main_exit_A \/ main_exit_B) /\ UNCHANGED trail

FairSpec == Spec /\ WF_vars(MainExit)

\* --------------------------------------------------------------- properties

DrawSources == {s \in sources : s.fn = DrawTimer}
IdleSources == {s \in sources : s.fn = IdleTimer}

\* The handle in data names a repaint timer attached to the main context.
TimerActive ==
  /\ draw_timeout_id # 0
  /\ \E s \in DrawSources : s.id = draw_timeout_id

LogCount(op, arg) == Cardinality({i \in DOMAIN log : log[i] = Ev(op, arg)})

KeyPressed == \E i \in DOMAIN log : log[i].op = "gtk_widget_destroy"

\* C1: whenever the stored width is > 0, the offset x lies in [0, width).
\* plasmacleaner.c's timer increments x without wrapping, so this fails there.
C1_OffsetBelowWidth == width > 0 => (0 <= x /\ x < width)

\* C2: a paint that observes width w (> 0) leaves the stored width at w, a
\* pattern in place and a repaint timer attached, for every w, also above
\* PERIOD_MS.  part_000 attaches no timer when PERIOD_MS / w is 0, the value
\* draw_timeout_interval starts with.
C2_PaintStartsAnimation ==
  [][\A w \in Widths :
       on_draw(w) => (width' = w /\ pattern' # NULL /\ live' > 0 /\ TimerActive')]_vars

\* C3: a paint that observes a width w2 different from the stored nonzero
\* width w1, with the offset at x < w1, leaves the offset at
\* floor(x * w2 / w1), which is below w2.  plasmacleaner.c takes x modulo w2.
C3_ProportionalRescale ==
  [][\A w \in Widths :
       (on_draw(w) /\ width # 0 /\ width # w /\ x < width)
         => (x' = (x * w) \div width /\ 0 <= x' /\ x' < w)]_vars

\* C4: in every state at most one repaint timer and at most one
\* idle-suppression timer is attached to the main context.
C4_AtMostOneTimerOfEach ==
  /\ Cardinality(DrawSources) <= 1
  /\ Cardinality(IdleSources) <= 1

\* C4's case: a repaint timer was replaced after a width change, and both
\* timers are attached.
C4_Witness ==
  /\ draw_timeout_id >= 3
  /\ Cardinality(DrawSources) = 1
  /\ Cardinality(IdleSources) = 1

\* The final state of C5: no timer attached, no pattern allocated, exit 0.
Final ==
  /\ phase = "exited"
  /\ exit_status = 0
  /\ sources = {}
  /\ draw_timeout_id = 0
  /\ live = 0

\* C5: a key or button press, whenever it arrives, leads to the final state:
\* repaint timer cancelled, idle-suppression timer cancelled, pattern
\* released, exit status 0.
C5_KeyPressLeadsToExit == KeyPressed ~> Final

\* C5's case: the press came after a width change, and the process has exited.
C5_Witness ==
  /\ KeyPressed
  /\ Final
  /\ width > 0
  /\ LogCount("g_source_remove", 2) = 1

\* C6: from any start offset below the width, width consecutive timer firings
\* visit every offset of [0, width) once and end at the start offset.
\* plasmacleaner.c's firings only count up.
C6_FullCycle ==
  Len(trail) = width + 1 =>
    /\ trail[width + 1] = trail[1]
    /\ {trail[i] : i \in 2..(width + 1)} = 0..(width - 1)

\* C7: while a width > 0 is stored, the attached repaint timer's interval is
\* PERIOD_MS / width, truncated, for the width stored now (800 gives 5 ms, 1600
\* gives 2 ms).
C7_IntervalFollowsWidth ==
  /\ width > 0 => \A s \in DrawSources : s.interval = PERIOD_MS \div width
  /\ draw_interval_A(800) = 5 /\ draw_interval_B(800) = 5
  /\ draw_interval_A(1600) = 2 /\ draw_interval_B(1600) = 2

\* C7's case: the width changed to 4001 and the repaint timer attached for it
\* (the third source or a later one) has interval 0.
C7_Witness ==
  /\ width = 4001
  /\ \E s \in DrawSources : s.id >= 3 /\ s.id = draw_timeout_id /\ s.interval = 0

\* C8: a paint that observes the stored width changes neither the pattern nor
\* the repaint timer nor the offset.  plasmacleaner.c wraps the offset there.
C8_SameWidthPaintIsNoOp ==
  [][\A w \in Widths :
       (on_draw(w) /\ w = width)
         => UNCHANGED <<pattern, live, draw_timeout_id, sources, next_id, x>>]_vars

\* The idle-suppression source as main attached it.
IdleAttached ==
  IdleSources = {[id |-> screensaver_suppression_timeout_id, fn |-> IdleTimer,
                  interval |-> SCREENSAVER_SUPPRESSION_PERIOD_MS]}

C9_State ==
  /\ LogCount("g_timeout_add", screensaver_suppression_timeout_id) = 1
  /\ phase \in {"running", "quit"} =>
       /\ IdleAttached
       /\ LogCount("g_source_remove", screensaver_suppression_timeout_id) = 0
  /\ phase = "exited" =>
       /\ IdleSources = {}
       /\ LogCount("g_source_remove", screensaver_suppression_timeout_id) = 1

\* C9: the idle-suppression timer is attached once, stays attached through
\* every paint, width change and repaint-timer firing until gtk_main has
\* returned, is removed once, at exit, and the step that removes it leaves
\* the repaint timer as it was.
C9_IdleTimerLifetime ==
  [][/\ C9_State
     /\ C9_State'
     /\ IdleSources' # IdleSources =>
          /\ phase = "quit" /\ phase' = "exited"
          /\ DrawSources' = DrawSources
          /\ UNCHANGED <<draw_timeout_id, draw_timeout_interval>>]_vars

\* C9's case: repaint timers came and went, the process exited, the
\* idle-suppression timer was removed.
C9_Witness ==
  /\ phase = "exited"
  /\ next_id > 3
  /\ LogCount("g_source_remove", screensaver_suppression_timeout_id) = 1
  /\ IdleSources = {}

\* C10: every paint draws an allocated pattern whose period on screen (its
\* extent times the scale applied) is the width that paint observed.
C10_DrawnPatternMatchesWidth ==
  [][\A w \in Widths :
       on_draw(w) =>
         /\ cr'.source # NULL
         /\ cr'.source = pattern'
         /\ live' > 0
         /\ cr'.source * cr'.scale = w]_vars

\* C10's case: a paint has just drawn at a width that replaced an earlier one.
C10_Witness ==
  /\ cr # NoDraw
  /\ cr.source * cr.scale = width
  /\ width = 90
  /\ next_id > 3

\* The shutdown steps in the log: everything from gtk_widget_destroy on.
PressAt == CHOOSE i \in DOMAIN log : log[i].op = "gtk_widget_destroy"

RepaintCancels ==
  {i \in DOMAIN log : /\ i > PressAt
                      /\ log[i].op = "g_source_remove"
                      /\ log[i].arg # screensaver_suppression_timeout_id}
IdleCancels ==
  {i \in DOMAIN log : log[i] = Ev("g_source_remove", screensaver_suppression_timeout_id)}
PatternReleases ==
  {i \in DOMAIN log : i > PressAt /\ log[i].op = "cairo_pattern_destroy"}
LoopReturns == {i \in DOMAIN log : log[i].op = "gtk_main"}
ProcessExits == {i \in DOMAIN log : log[i].op = "return"}

Before(S, T) == \A i \in S : \A j \in T : i < j

\* C11 as stated: at exit the steps came in the order repaint timer
\* cancelled, idle-suppression timer cancelled, pattern released, event loop
\* returned, exit with status 0.  Both builds cancel the idle-suppression
\* timer only after gtk_main has returned.
C11_StatedShutdownOrder ==
  phase = "exited" =>
    /\ exit_status = 0
    /\ IdleCancels # {} /\ LoopReturns # {} /\ ProcessExits # {}
    /\ Before(RepaintCancels, IdleCancels)
    /\ Before(RepaintCancels, PatternReleases)
    /\ Before(IdleCancels, PatternReleases)
    /\ Before(IdleCancels, LoopReturns)
    /\ Before(PatternReleases, LoopReturns)
    /\ Before(LoopReturns, ProcessExits)

\* C11, amended: the repaint timer (if attached) is cancelled first, in the
\* destroy handler; gtk_main returns after that; the idle-suppression timer
\* is cancelled only after gtk_main returned; the exit with status 0 comes
\* last.  The pattern is released after the repaint timer's cancellation and
\* before the exit: by plasmacleaner.c before gtk_main returns, by part_000
\* after the idle-suppression timer's cancellation.
C11_ShutdownOrder ==
  phase = "exited" =>
    /\ exit_status = 0
    /\ sources = {}
    /\ Cardinality(IdleCancels) = 1
    /\ Cardinality(LoopReturns) = 1
    /\ Cardinality(ProcessExits) = 1
    /\ Cardinality(RepaintCancels) <= 1
    /\ Before(RepaintCancels, LoopReturns)
    /\ Before(LoopReturns, IdleCancels)
    /\ Before(IdleCancels, ProcessExits)
    /\ Before(RepaintCancels, PatternReleases)
    /\ Before(PatternReleases, ProcessExits)
    /\ build = BuildA =>
         /\ Before(PatternReleases, LoopReturns)
         /\ Cardinality(PatternReleases) = IF width > 0 THEN 1 ELSE 0
    /\ build = BuildB =>
         /\ Before(IdleCancels, PatternReleases)
         /\ Cardinality(PatternReleases) = 1

\* C11's case: the process exited after a press that found a repaint timer
\* attached and a pattern allocated.
C11_Witness ==
  /\ phase = "exited"
  /\ RepaintCancels # {}
  /\ PatternReleases # {}

\* This step cancelled the repaint timer data named (if any) and attached a
\* new one.
TimerReplaced ==
  /\ draw_timeout_id # 0 => \A s \in sources' : s.id # draw_timeout_id
  /\ draw_timeout_id' = next_id
  /\ \E s \in sources' : s.id = next_id /\ s.fn = DrawTimer

\* This step created a gradient of extent w.
PatternRebuilt(w) ==
  \E i \in DOMAIN log' :
    i > Len(log) /\ log'[i] = Ev("cairo_pattern_create_linear", w)

\* C12 as stated: every paint that observes a width different from the stored
\* one cancels the repaint timer (if any), attaches a new one and rebuilds
\* the pattern before it draws, for every pair of distinct widths.  part_000
\* never rebuilds its unit-width pattern and keeps the timer when
\* PERIOD_MS / width is unchanged.
C12_StatedRebuildOnChange ==
  [][\A w \in Widths :
       (on_draw(w) /\ width # w)
         => (TimerReplaced /\ PatternRebuilt(w) /\ cr' # NoDraw)]_vars

\* What the two builds do on a paint that observes a changed width w (holds):
\* the paint draws a pattern whose period is w.  plasmacleaner.c cancels the
\* repaint timer (if any), attaches a new one and rebuilds the pattern, for
\* every pair of distinct widths; part_000 cancels and re-attaches the timer
\* exactly when PERIOD_MS / w (truncated) differs from the stored interval, and
\* never rebuilds the pattern, which it scales by w.
RebuildOnChange_PerBuild ==
  [][\A w \in Widths :
       (on_draw(w) /\ width # w) =>
         /\ cr'.source = pattern'
         /\ cr'.source * cr'.scale = w
         /\ build = BuildA =>
              /\ TimerReplaced
              /\ PatternRebuilt(w)
              /\ pattern' = w /\ live' = 1
         /\ build = BuildB =>
              /\ IF draw_timeout_interval # PERIOD_MS \div w
                   THEN TimerReplaced
                   ELSE UNCHANGED <<sources, draw_timeout_id, next_id>>
              /\ ~PatternRebuilt(w)
              /\ UNCHANGED <<pattern, live>>
              /\ cr'.scale = w]_vars

\* plasmacleaner.c has just painted at width 90 after width 89 (two widths
\* with the same truncated interval): the log ends with the old pattern's
\* release, the new timer and the new pattern.
RebuildOnChange_SameInterval ==
  /\ build = BuildA
  /\ cr # NoDraw
  /\ Len(log) >= 4
  /\ log[Len(log) - 3].op = "g_source_remove"
  /\ log[Len(log) - 2] = Ev("cairo_pattern_destroy", 89)
  /\ log[Len(log) - 1].op = "g_timeout_add"
  /\ log[Len(log)] = Ev("cairo_pattern_create_linear", 90)
  /\ \E s \in DrawSources : s.id = draw_timeout_id /\ s.interval = 44

\* C13: the interval of every registered repaint timer is at least 1 ms;
\* PERIOD_MS / w below 1 is clamped to 1.  Neither build clamps: a width above
\* PERIOD_MS registers interval 0.
C13_IntervalAtLeastOne == \A s \in DrawSources : s.interval >= 1

\* C14: whenever a repaint timer is registered the stored width is positive,
\* so the timer handler's assertion on the width, and its modulo by the width,
\* never fail.
C14_TimerImpliesWidth ==
  /\ DrawSources # {} => width > 0
  /\ phase # "aborted"

\* C14's case: part_000's repaint timer is registered and its handler has run
\* (the offset has advanced) with the assertion passed.
C14_Witness ==
  /\ build = BuildB
  /\ phase = "running"
  /\ DrawSources # {}
  /\ x > 0
  /\ redraw

\* C15: a paint event that observes width 0 ends in the fatal error state
\* before anything is computed with the width: it registers no timer, draws
\* nothing, creates no pattern and never divides or reduces modulo zero.
\* plasmacleaner.c has no such check: it divides PERIOD_MS by 0, registers a
\* timer and reduces the offset modulo 0.
C15_ZeroWidthPaintIsFatal ==
  [][on_draw(0)
       => /\ phase' = "aborted"
          /\ UNCHANGED <<sources, draw_timeout_id, next_id, pattern, live, log,
                         x, width, cr>>]_vars

\* A paint that observes a width different from the stored one.
PaintAtChangedWidth == \E w \in Widths : w # width /\ on_draw(w)

\* The window-destroy handler, which both builds run on a button or key press.
WindowDestroyed == on_button_or_key_press_A \/ on_button_or_key_press_B

\* C16: a registered repaint timer stays registered across each of its own
\* firings and across every paint that observes an unchanged width; it is
\* unregistered only by a paint that observes a changed width or by the
\* destruction of the window.
C16_TimerCancelledOnlyOnChangeOrDestroy ==
  [][/\ (DrawSources \ DrawSources' # {})
          => (PaintAtChangedWidth \/ WindowDestroyed)
     /\ (on_draw_timer_A \/ on_draw_timer_B) => DrawSources' = DrawSources
     /\ on_draw(width) => DrawSources' = DrawSources]_vars

\* C16's case: a repaint timer that has fired (the offset has advanced) and
\* has survived a paint at an unchanged width is still registered.
C16_Witness ==
  /\ phase = "running"
  /\ \E s \in DrawSources : s.id = draw_timeout_id
  /\ x > 0
  /\ cr # NoDraw
  /\ cr.translate = x
  /\ ~redraw

\* The positions of the log before position i at which op was called.
CallsBefore(op, i) == {j \in 1..(i - 1) : log[j].op = op}

\* Every removed source had been attached and had not been removed before.
RemovalsSound ==
  \A i \in DOMAIN log :
    log[i].op = "g_source_remove"
      => /\ \E j \in 1..(i - 1) : log[j] = Ev("g_timeout_add", log[i].arg)
         /\ \A j \in 1..(i - 1) : log[j] # log[i]

\* Every released pattern is non-null, is the one created last, and had not
\* been released before.
ReleasesSound ==
  \A i \in DOMAIN log :
    log[i].op = "cairo_pattern_destroy"
      => /\ log[i].arg # NULL
         /\ Cardinality(CallsBefore("cairo_pattern_create_linear", i))
              = Cardinality(CallsBefore("cairo_pattern_destroy", i)) + 1
         /\ \E j \in CallsBefore("cairo_pattern_create_linear", i) :
              /\ log[j].arg = log[i].arg
              /\ \A k \in CallsBefore("cairo_pattern_create_linear", i) : k <= j

TimerRegistered ==
  \E i \in DOMAIN log' : i > Len(log) /\ log'[i].op = "g_timeout_add"

\* C18: once the window-destroy handler has run, no repaint timer fires and no
\* paint is dispatched: the animation state is not written, nothing is drawn
\* (so the released pattern is not used), no repaint timer is registered and
\* none is registered again.
C18_QuietAfterDestroy ==
  [][KeyPressed =>
       /\ ~(on_draw_timer_A \/ on_draw_timer_B)
       /\ \A w \in Widths : ~on_draw(w)
       /\ UNCHANGED <<x, width, draw_timeout_id, draw_timeout_interval, redraw>>
       /\ cr' = NoDraw
       /\ DrawSources = {} /\ DrawSources' = {}
       /\ ~TimerRegistered
       /\ live' <= live]_vars

\* C18's case: the window was destroyed while the animation was running (a
\* repaint timer had been registered and had advanced the offset), and the
\* program went on to leave the event loop.
C18_Witness ==
  /\ KeyPressed
  /\ phase = "exited"
  /\ x > 0
  /\ \E i \in DOMAIN log :
       log[i].op = "g_source_remove" /\ log[i].arg # screensaver_suppression_timeout_id

====
